---------------------------- MODULE Spec2Model ----------------------------
(***************************************************************************)
(* Cross-Seed-AutoDL (src/CrossSeedAutoDL.py): the run of main() as a      *)
(* state machine.  One process, one program counter (pc); the aggregator,  *)
(* the trackers and the file system are the environment.                   *)
(*                                                                         *)
(* Strings the program takes apart with regular expressions (details URLs, *)
(* titles) are sequences of one-character strings; strings it only         *)
(* compares (basenames, tracker ids, links) are TLA+ strings.              *)
(***************************************************************************)
EXTENDS Integers, Sequences, FiniteSets, TLC

VARIABLES
    ARGS,             \* the parsed command line (line 24)
    settings,         \* what assert_settings() finds in the environment
    paths,            \* main(): the releases behind the input path(s)
    net,              \* the aggregator's answer to each release's query
    file,             \* SearchHistory.json on disk
    file0,            \* SearchHistory.json as it was when the run started
    save_dir,         \* the names of the files in ARGS.save_path
    search_history,   \* main(): the in-memory ledger
    loaded,           \* the ledger as get_download_history() returned it
    pc,               \* position in main()
    i,                \* main(): index of the current path (1-based)
    n,                \* Searcher.search: the attempt number of range(2)
    resp,             \* Searcher.search: the response (status "none": None)
    search_results,   \* Searcher.search_results
    matching_results, \* main(): matching_results
    j,                \* main(): index of the current result (1-based)
    reqs,             \* aggregator requests issued for the current release
    sleeps,           \* time.sleep(ARGS.delay) calls made in this run
    fetched,          \* the results whose torrent was requested in this run
    writes,           \* times SearchHistory.json was written in this run
    exit_code,        \* the process's exit status (NotExited while running)
    cause,            \* why the run ended
    run,              \* how many times the command line has been started
    asked             \* the aggregator was asked and no delay was slept since

vars == <<ARGS, settings, paths, net, file, file0, save_dir, search_history,
          loaded, pc, i, n, resp, search_results, matching_results, j, reqs,
          sleeps, fetched, writes, exit_code, cause, run, asked>>

----------------------------------------------------------------------------
(* Bounds of the model.                                                    *)

\* the most entries os.listdir(ARGS.input_path) returns
MaxPaths == 3

\* the most times the command line is run, each run over the files the one
\* before left
MaxRuns == 2

\* the most results in a response handed to the match step alone
MaxResults == 2

\* the most characters of a title handed to the trim step alone
MaxTitleLen == 6

----------------------------------------------------------------------------
(* Program constants.                                                      *)

\* Python's None where the model's value is a string
None == "None"

\* ReleaseData._get_total_size returning None (sizes are never negative)
NoSize == 0 - 1

\* exit_code while the process runs
NotExited == 0 - 1

MiB == 1024 * 1024

\* Searcher.size_differences_strictness[strict]
size_differences_strictness(strict) == IF strict THEN 0 ELSE 5 * MiB

Blutopia == <<"B", "l", "u", "t", "o", "p", "i", "a">>

TorrentLeech == <<"T", "L">>

\* Searcher.keys_from_result
keys_from_result ==
    {"Tracker", "TrackerId", "CategoryDesc", "Title", "Link", "Details",
     "Category", "Size", "Imdb"}

----------------------------------------------------------------------------
(* Sequence helpers.                                                       *)

Abs(x) == IF x < 0 THEN 0 - x ELSE x

Contains(s, x) == \E k \in 1..Len(s) : s[k] = x

NoDuplicates(s) == \A k, l \in 1..Len(s) : k # l => s[k] # s[l]

\* s[a..] (Python slice s[a-1:])
Suffix(s, a) == SubSeq(s, a, Len(s))

StartsWith(s, p) == Len(s) >= Len(p) /\ SubSeq(s, 1, Len(p)) = p

----------------------------------------------------------------------------
(* ReleaseData (lines 43-86).  A release on disk is                        *)
(* [basename, title, kind, files]: kind is "file", "dir" or "other" (what  *)
(* os.path.isfile / isdir say of the path), files are its regular files,   *)
(* each [is_link, target_is_file, size], and title is what guessit finds.  *)

\* ReleaseData._get_file_size (lines 68-76)
_get_file_size(f) ==
    IF f.is_link
    THEN IF f.target_is_file THEN f.size ELSE NoSize
    ELSE f.size

\* the loop of lines 59-64 from file k on, total_size so far = acc
RECURSIVE walk_total(_, _, _)
walk_total(files, k, acc) ==
    IF k > Len(files) THEN acc
    ELSE IF _get_file_size(files[k]) = NoSize THEN NoSize
    ELSE walk_total(files, k + 1, acc + _get_file_size(files[k]))

\* ReleaseData._get_total_size (lines 53-65); neither file nor directory
\* falls off the end of the function: None
_get_total_size(rel) ==
    IF rel.kind = "file" THEN _get_file_size(rel.files[1])
    ELSE IF rel.kind = "dir" THEN walk_total(rel.files, 1, 0)
    ELSE NoSize

\* ReleaseData.get_release_data (lines 45-51)
get_release_data(rel) ==
    [basename |-> rel.basename,
     size |-> _get_total_size(rel),
     title |-> rel.title]

----------------------------------------------------------------------------
(* HistoryManager.url_path_re (line 299): ^https?://[^/]+(.+)              *)

HttpPrefix == <<"h", "t", "t", "p", ":", "/", "/">>

HttpsPrefix == <<"h", "t", "t", "p", "s", ":", "/", "/">>

\* what follows "http://" or "https://"; <<>> when the URL starts with neither
AfterScheme(u) ==
    IF StartsWith(u, HttpsPrefix) THEN Suffix(u, Len(HttpsPrefix) + 1)
    ELSE IF StartsWith(u, HttpPrefix) THEN Suffix(u, Len(HttpPrefix) + 1)
    ELSE <<>>

\* how many characters the greedy [^/]+ takes at the start of s
RECURSIVE LeadingNonSlash(_)
LeadingNonSlash(s) ==
    IF s = <<>> \/ Head(s) = "/" THEN 0 ELSE 1 + LeadingNonSlash(Tail(s))

\* re.search(url_path_re, u): group(1) of the match, <<>> when there is none
\* (a match's group(1) is never empty).  [^/]+ is greedy and gives back one
\* character when nothing is left for (.+).
url_path(u) ==
    LET s == AfterScheme(u)
        m == LeadingNonSlash(s)
    IN  IF m = 0 THEN <<>>
        ELSE IF m < Len(s) THEN Suffix(s, m + 1)
        ELSE IF m >= 2 THEN Suffix(s, m)
        ELSE <<>>

----------------------------------------------------------------------------
(* Searcher._reformat_release_name (lines 208-219): ^(.+?)( \[.*/.*\])?$   *)

\* s matches " \[.*/.*\]" from its first to its last character
IsBracketSuffix(s) ==
    /\ Len(s) >= 4
    /\ s[1] = " "
    /\ s[2] = "["
    /\ s[Len(s)] = "]"
    /\ \E k \in 3..(Len(s) - 1) : s[k] = "/"

\* the lazy (.+?) tries the prefixes from the shortest on
RECURSIVE lazy_group(_, _)
lazy_group(name, k) ==
    IF k > Len(name) THEN name
    ELSE IF k = Len(name) \/ IsBracketSuffix(Suffix(name, k + 1))
         THEN SubSeq(name, 1, k)
    ELSE lazy_group(name, k + 1)

\* Mutation of _reformat_release_name: the pattern asks for no "/" between
\* the brackets, ^(.+?)( \[.*\])?$
_reformat_release_name_any_bracket(release_name) ==
    LET cuts == {k \in 1..(Len(release_name) - 3) :
                    /\ release_name[k + 1] = " "
                    /\ release_name[k + 2] = "["
                    /\ release_name[Len(release_name)] = "]"}
    IN  IF cuts = {} THEN release_name
        ELSE SubSeq(release_name, 1, CHOOSE k \in cuts : \A l \in cuts : k <= l)

_reformat_release_name(release_name) == lazy_group(release_name, 1)

----------------------------------------------------------------------------
(* HistoryManager (lines 295-342).  The ledger is                          *)
(* [basenames_searched: list, download_history: dict tracker id -> list];  *)
(* the dict is a function whose DOMAIN is its keys.                        *)

EmptyHistory ==
    [basenames_searched |-> <<>>, download_history |-> <<>>]

\* HistoryManager.get_download_history (lines 301-311): f is the file,
\* [exists, data]; a file that cannot be read gives the empty ledger
get_download_history(f) == IF f.exists THEN f.data ELSE EmptyHistory

\* HistoryManager.is_file_previously_searched (lines 313-318)
is_file_previously_searched(basename, history) ==
    Contains(history.basenames_searched, basename)

\* Mutation of is_torrent_previously_grabbed: the details URL is looked up
\* as it is, without reducing it to its path
is_torrent_previously_grabbed_raw_url(result, history) ==
    LET tracker_id == result.TrackerId
    IN  IF tracker_id \notin DOMAIN history.download_history THEN FALSE
        ELSE Contains(history.download_history[tracker_id], result.Details)

\* HistoryManager.is_torrent_previously_grabbed (lines 320-331)
is_torrent_previously_grabbed(result, history) ==
    LET path == url_path(result.Details)
        tracker_id == result.TrackerId
    IN  IF tracker_id \notin DOMAIN history.download_history THEN FALSE
        ELSE Contains(history.download_history[tracker_id], path)

\* Mutation of append_to_download_history: the `not in` test of line 341 is
\* left out
append_to_download_history_no_test(details_url, tracker_id, history) ==
    LET path == url_path(details_url)
        dh0 == history.download_history
        dh1 == IF tracker_id \in DOMAIN dh0 THEN dh0
               ELSE [t \in DOMAIN dh0 \cup {tracker_id} |->
                        IF t \in DOMAIN dh0 THEN dh0[t] ELSE <<>>]
    IN  [history EXCEPT
            !.download_history = [dh1 EXCEPT ![tracker_id] = Append(@, path)]]

\* HistoryManager.append_to_download_history (lines 333-342)
append_to_download_history(details_url, tracker_id, history) ==
    LET path == url_path(details_url)
        dh0 == history.download_history
        dh1 == IF tracker_id \in DOMAIN dh0 THEN dh0
               ELSE [t \in DOMAIN dh0 \cup {tracker_id} |->
                        IF t \in DOMAIN dh0 THEN dh0[t] ELSE <<>>]
        dh2 == IF Contains(dh1[tracker_id], path) THEN dh1
               ELSE [dh1 EXCEPT ![tracker_id] = Append(@, path)]
    IN  [history EXCEPT !.download_history = dh2]

\* Mutation of append_basename: the list is set to the basename, not
\* appended to (`= [basename]` for `.append(basename)` at line 150)
append_basename_replacing(basename, history) ==
    IF Contains(history.basenames_searched, basename) THEN history
    ELSE [history EXCEPT !.basenames_searched = <<basename>>]

\* lines 148-150 of Searcher.search: append basename to history
append_basename(basename, history) ==
    IF Contains(history.basenames_searched, basename) THEN history
    ELSE [history EXCEPT !.basenames_searched = Append(@, basename)]

----------------------------------------------------------------------------
(* Searcher (lines 89-236).                                                *)

\* Mutation of _is_skip_worthy: the size is looked at only when the history
\* is (the test of line 231 moved under `if not ARGS.ignore_history`)
_is_skip_worthy_size_under_history(local_release_data, history, args) ==
    IF ~args.ignore_history
    THEN \/ /\ is_file_previously_searched(local_release_data.basename,
                                           history)
            /\ args.parse_dir
         \/ local_release_data.size = NoSize
    ELSE FALSE

\* Mutation of _is_skip_worthy: `and ARGS.parse_dir` (line 226) is left out
_is_skip_worthy_without_parse_dir(local_release_data, history, args) ==
    IF /\ ~args.ignore_history
       /\ is_file_previously_searched(local_release_data.basename, history)
    THEN TRUE
    ELSE local_release_data.size = NoSize

\* Searcher._is_skip_worthy (lines 221-236)
_is_skip_worthy(local_release_data, history, args) ==
    IF /\ ~args.ignore_history
       /\ is_file_previously_searched(local_release_data.basename, history)
       /\ args.parse_dir
    THEN TRUE
    ELSE local_release_data.size = NoSize

\* Mutation of is_match: `<` for the `<=` of line 188
is_match_strictly_less(result, local_release_data, args) ==
    LET base == size_differences_strictness(args.strict_size)
        max_size_difference ==
            IF result.Tracker = Blutopia THEN base * 2 ELSE base
    IN  Abs(result.Size - local_release_data.size) < max_size_difference

\* the body of the loop of Searcher._get_matching_results (lines 183-189)
is_match(result, local_release_data, args) ==
    LET base == size_differences_strictness(args.strict_size)
        max_size_difference ==
            IF result.Tracker = Blutopia THEN base * 2 ELSE base
    IN  Abs(result.Size - local_release_data.size) <= max_size_difference

\* Searcher._get_matching_results (lines 178-194): the loop from result k
\* on, with matching_results so far = acc
RECURSIVE matching_from(_, _, _, _, _)
matching_from(results, k, acc, local_release_data, args) ==
    IF k > Len(results) THEN acc
    ELSE matching_from(results, k + 1,
                       IF is_match(results[k], local_release_data, args)
                       THEN Append(acc, results[k]) ELSE acc,
                       local_release_data, args)

_get_matching_results(results, local_release_data, args) ==
    matching_from(results, 1, <<>>, local_release_data, args)

\* Searcher._trim_results (lines 196-206): keep keys_from_result, reformat
\* the title
trim_result(result) ==
    [[key \in keys_from_result |-> result[key]]
        EXCEPT !["Title"] = _reformat_release_name(@)]

_trim_results(results) == [k \in 1..Len(results) |-> trim_result(results[k])]

----------------------------------------------------------------------------
(* Downloader (lines 247-292).  A file of the save directory is known by   *)
(* its name, a sequence of characters.                                     *)

\* the characters \w matches
WordChars ==
    {"a", "b", "c", "d", "e", "f", "g", "h", "i", "j", "k", "l", "m", "n",
     "o", "p", "q", "r", "s", "t", "u", "v", "w", "x", "y", "z",
     "A", "B", "C", "D", "E", "F", "G", "H", "I", "J", "K", "L", "M", "N",
     "O", "P", "Q", "R", "S", "T", "U", "V", "W", "X", "Y", "Z",
     "0", "1", "2", "3", "4", "5", "6", "7", "8", "9", "_"}

\* the characters [^\w\-_.()\[\] ]+ leaves in place (line 280)
KeptChars == WordChars \cup {"-", ".", "(", ")", "[", "]", " "}

\* Downloader._sanitize_name (lines 277-281)
_sanitize_name(release_name) ==
    LET replaced == [k \in 1..Len(release_name) |->
                        IF release_name[k] = "/" THEN "-"
                        ELSE release_name[k]]
        Kept(c) == c \in KeptChars
    IN  SelectSeq(replaced, Kept)

\* '{Title} [{Tracker}]'.format(**result), sanitized (line 252)
release_name_of(result) ==
    _sanitize_name(result.Title \o <<" ", "[">> \o result.Tracker \o <<"]">>)

TorrentExt == <<".", "t", "o", "r", "r", "e", "n", "t">>

DecimalDigits == <<"0", "1", "2", "3", "4", "5", "6", "7", "8", "9">>

\* str(n) for n >= 0
RECURSIVE str(_)
str(k) ==
    IF k < 10 THEN <<DecimalDigits[k + 1]>>
    ELSE str(k \div 10) \o <<DecimalDigits[(k % 10) + 1]>>

\* os.path.splitext on a file name: <<root, ext>>, the extension starting at
\* the last dot that has a character other than a dot before it
splitext(name) ==
    LET dots == {k \in 1..Len(name) :
                    /\ name[k] = "."
                    /\ \E l \in 1..(k - 1) : name[l] # "."}
    IN  IF dots = {} THEN <<name, <<>>>>
        ELSE LET d == CHOOSE k \in dots : \A l \in dots : l <= k
             IN  <<SubSeq(name, 1, d - 1), Suffix(name, d)>>

\* the loop of Downloader._validate_path (lines 287-290) with file_path and
\* n as they stand, over the files of the directory
RECURSIVE validate_from(_, _, _, _, _)
validate_from(file_path, k, filename, ext, dir) ==
    IF file_path \notin dir THEN file_path
    ELSE validate_from(filename \o <<" ", "(">> \o str(k) \o <<")">> \o ext,
                       k + 1, filename, ext, dir)

\* Mutation of _validate_path: `if` for the `while` of line 287, the numbered
\* name is not looked up in its turn
_validate_path_checking_once(file_path, dir) ==
    IF file_path \notin dir THEN file_path
    ELSE splitext(file_path)[1] \o <<" ", "(", "1", ")">>
             \o splitext(file_path)[2]

\* Downloader._validate_path (lines 283-292)
_validate_path(file_path, dir) ==
    validate_from(file_path, 1, splitext(file_path)[1],
                  splitext(file_path)[2], dir)

\* Downloader.download, lines 265-266: the name the torrent is saved under
torrent_path(result, dir) ==
    _validate_path(release_name_of(result) \o TorrentExt, dir)

----------------------------------------------------------------------------
(* The environment the runs are checked in: releases on disk, the results  *)
(* the aggregator knows, the answers it can give.                          *)

SizeA == 100 * MiB

RegularFile(size) == [is_link |-> FALSE, target_is_file |-> TRUE, size |-> size]

LinkTo(size) == [is_link |-> TRUE, target_is_file |-> TRUE, size |-> size]

DanglingLink == [is_link |-> TRUE, target_is_file |-> FALSE, size |-> 0]

\* a single file
RelA ==
    [basename |-> "A.mkv", title |-> "A", kind |-> "file",
     files |-> <<RegularFile(SizeA)>>]

\* a directory of a file and a link to a file, SizeA in all
RelB ==
    [basename |-> "B", title |-> "B", kind |-> "dir",
     files |-> <<RegularFile(60 * MiB), LinkTo(40 * MiB)>>]

\* a directory holding a link whose target is gone
RelL ==
    [basename |-> "L", title |-> "L", kind |-> "dir",
     files |-> <<RegularFile(SizeA), DanglingLink>>]

\* a file guessit finds no title in
RelT ==
    [basename |-> "T", title |-> None, kind |-> "file",
     files |-> <<RegularFile(SizeA)>>]

Releases == {RelA, RelB, RelL, RelT}

\* http://t/5
UrlT5 == HttpPrefix \o <<"t", "/", "5">>

\* https://m:8/5, the same tracker behind a proxy
UrlM5 == HttpsPrefix \o <<"m", ":", "8", "/", "5">>

\* http://t/6
UrlT6 == HttpPrefix \o <<"t", "/", "6">>

\* http://b/5
UrlB5 == HttpPrefix \o <<"b", "/", "5">>

\* http://b/7
UrlB7 == HttpPrefix \o <<"b", "/", "7">>

\* one entry of the response's Results
RawResult(tracker, tracker_id, title, link, details, size) ==
    [Tracker |-> tracker, TrackerId |-> tracker_id, CategoryDesc |-> "Movies",
     Title |-> title, Link |-> link, Details |-> details, Category |-> 2000,
     Size |-> size, Imdb |-> None, Seeders |-> 1]

\* "A [x/y]"
TitleAnnotated == <<"A", " ", "[", "x", "/", "y", "]">>

Cand1 == RawResult(TorrentLeech, "tl", <<"A">>, "l1", UrlT5, SizeA)

Cand2 == RawResult(TorrentLeech, "tl", TitleAnnotated, "l2", UrlM5, SizeA)

Cand3 == RawResult(Blutopia, "blu", <<"A">>, None, UrlB7, SizeA + 10 * MiB)

\* "A:/b"
TitleUnclean == <<"A", ":", "/", "b">>

Cand4 ==
    RawResult(Blutopia, "blu", TitleUnclean, "l4", UrlB5, SizeA - 5 * MiB - 1)

Cand5 == RawResult(TorrentLeech, "tl", <<"A">>, "l5", UrlT6, SizeA + 5 * MiB)

Cand6 == RawResult(TorrentLeech, "tl", <<"A">>, "l6", UrlT6, SizeA + 5 * MiB + 1)

\* the Results lists the aggregator answers with
ResultLists == {<<>>, <<Cand1, Cand2>>, <<Cand3, Cand4, Cand5, Cand6>>}

\* a response: its HTTP status is below 400 (requests' bool(resp)), its
\* body is JSON, and the JSON's Indexers and Results
Body(http_ok, json_ok, indexers, results) ==
    [http_ok |-> http_ok, json_ok |-> json_ok, Indexers |-> indexers,
     Results |-> results]

\* resp = None (line 115)
NoResponse == [status |-> "none", body |-> Body(FALSE, FALSE, <<>>, <<>>)]

Bodies ==
    {Body(FALSE, TRUE, <<>>, <<>>),
     Body(TRUE, FALSE, <<>>, <<>>),
     Body(TRUE, TRUE, <<>>, <<>>)}
    \cup {Body(TRUE, TRUE, <<"tl", "blu">>, r) : r \in ResultLists}

\* what the aggregator does for one release: how each attempt ends, and the
\* body of the attempt that gets through
Outcomes ==
    {[attempts |-> <<"ok">>, body |-> b] : b \in Bodies}
    \cup {[attempts |-> <<"fail", "ok">>,
           body |-> Body(TRUE, TRUE, <<"tl", "blu">>, <<Cand1, Cand2>>)],
          [attempts |-> <<"fail", "fail">>, body |-> NoResponse.body]}

\* not asked yet
Unknown == [attempts |-> <<>>, body |-> NoResponse.body]

Basenames == {r.basename : r \in Releases}

\* the ledgers a run can find on disk before the first run of the model
Ledger0 ==
    [basenames_searched |-> <<"A.mkv">>,
     download_history |-> [t \in {"tl"} |-> <<url_path(UrlT5)>>]]

Files0 == {[exists |-> FALSE, data |-> EmptyHistory],
           [exists |-> TRUE, data |-> Ledger0]}

\* the save directory before the first run: empty, or holding a torrent
\* saved earlier under the name of Cand1
SaveDirs0 == {{}, {release_name_of(trim_result(Cand1)) \o TorrentExt}}

SettingsKinds ==
    {"ok", "no_input", "not_dir", "no_save", "bad_url", "unreachable"}

\* the injective sequences over S of length at most m (os.listdir names are
\* distinct)
RECURSIVE InjSeqs(_, _)
InjSeqs(S, m) ==
    IF m = 0 THEN {<<>>}
    ELSE LET shorter == InjSeqs(S, m - 1)
         IN  shorter \cup
             {Append(p[1], p[2]) :
                p \in {p \in shorter \X S :
                         Len(p[1]) = m - 1 /\ ~Contains(p[1], p[2])}}

----------------------------------------------------------------------------
(* The run.                                                                *)

\* main(), line 353: the release being processed
local_release_data == get_release_data(paths[i])

\* where the loop of line 352 goes after path k
AfterPath(k) == IF k < Len(paths) THEN "profile" ELSE "persist"

Init ==
    /\ ARGS \in [parse_dir : BOOLEAN, ignore_history : BOOLEAN,
                 strict_size : BOOLEAN]
    /\ settings \in SettingsKinds
    /\ paths \in InjSeqs(Releases, MaxPaths)
    /\ ~ARGS.parse_dir => Len(paths) = 1
    /\ net = [b \in Basenames |-> Unknown]
    /\ file \in Files0
    /\ file0 = file
    /\ save_dir \in SaveDirs0
    /\ search_history = EmptyHistory
    /\ loaded = EmptyHistory
    /\ pc = "start"
    /\ i = 1
    /\ n = 0
    /\ resp = NoResponse
    /\ search_results = <<>>
    /\ matching_results = <<>>
    /\ j = 1
    /\ reqs = 0
    /\ sleeps = 0
    /\ fetched = <<>>
    /\ writes = 0
    /\ exit_code = NotExited
    /\ cause = "running"
    /\ run = 1
    /\ asked = FALSE

\* assert_settings (lines 383-395): "assert" when an assertion fails,
\* "unreachable" when requests.head raises, "ok" otherwise
assert_settings(found, args) ==
    IF found \in {"no_input", "no_save", "bad_url"} THEN "assert"
    ELSE IF found = "not_dir" /\ args.parse_dir THEN "assert"
    ELSE IF found = "unreachable" THEN "unreachable"
    ELSE "ok"

\* the process ends here, with this status
Exit(status, why) ==
    /\ pc' = "aborted"
    /\ exit_code' = status
    /\ cause' = why

\* main(), lines 346-350, when a setting fails: an AssertionError ends the
\* process with status 1; line 395's exit() has no argument, status 0
StartFails ==
    /\ pc = "start"
    /\ assert_settings(settings, ARGS) # "ok"
    /\ IF assert_settings(settings, ARGS) = "assert"
       THEN Exit(1, "assert")
       ELSE Exit(0, "unreachable")
    /\ UNCHANGED <<ARGS, settings, paths, net, file, file0, save_dir,
                   search_history, loaded, i, n, resp, search_results,
                   matching_results, j, reqs, sleeps, fetched, writes, run,
                   asked>>

\* main(), lines 346-350: the settings hold, the ledger is loaded
Start ==
    /\ pc = "start"
    /\ assert_settings(settings, ARGS) = "ok"
    /\ search_history' = get_download_history(file)
    /\ loaded' = get_download_history(file)
    /\ i' = 1
    /\ pc' = AfterPath(0)
    /\ UNCHANGED <<ARGS, settings, paths, net, file, file0, save_dir, n, resp,
                   search_results, matching_results, j, reqs, sleeps, fetched,
                   writes, exit_code, cause, run, asked>>

\* main(), lines 353-358: no title, the path is skipped by `continue`
ProfileSkip ==
    /\ pc = "profile"
    /\ local_release_data.title = None
    /\ pc' = AfterPath(i)
    /\ i' = i + 1
    /\ reqs' = 0
    /\ UNCHANGED <<ARGS, settings, paths, net, file, file0, save_dir,
                   search_history, loaded, n, resp, search_results,
                   matching_results, j, sleeps, fetched, writes, exit_code,
                   cause, run, asked>>

\* main(), lines 353-370: the release has a title, search is called
Profile ==
    /\ pc = "profile"
    /\ local_release_data.title # None
    /\ pc' = "search"
    /\ reqs' = 0
    /\ search_results' = <<>>
    /\ matching_results' = <<>>
    /\ UNCHANGED <<ARGS, settings, paths, net, file, file0, save_dir,
                   search_history, loaded, i, n, resp, j, sleeps, fetched,
                   writes, exit_code, cause, run, asked>>

\* Mutation of SearchSkip: a skipped search moves on to the next path as
\* the `continue` of line 358 does, past the delay
SearchSkip_moving_on ==
    /\ pc = "search"
    /\ _is_skip_worthy(local_release_data, search_history, ARGS)
    /\ matching_results' = <<>>
    /\ j' = 1
    /\ i' = i + 1
    /\ pc' = AfterPath(i)
    /\ UNCHANGED <<ARGS, settings, paths, net, file, file0, save_dir,
                   search_history, loaded, n, resp, search_results, reqs,
                   sleeps, fetched, writes, exit_code, cause, run, asked>>

\* Searcher.search, lines 104-106: skip-worthy, [] is returned
SearchSkip ==
    /\ pc = "search"
    /\ _is_skip_worthy(local_release_data, search_history, ARGS)
    /\ matching_results' = <<>>
    /\ j' = 1
    /\ pc' = "download"
    /\ UNCHANGED <<ARGS, settings, paths, net, file, file0, save_dir,
                   search_history, loaded, i, n, resp, search_results, reqs,
                   sleeps, fetched, writes, exit_code, cause, run, asked>>

\* Searcher.search, lines 108-116: the query is built, the loop is entered
SearchBegin ==
    /\ pc = "search"
    /\ ~_is_skip_worthy(local_release_data, search_history, ARGS)
    /\ resp' = NoResponse
    /\ n' = 0
    /\ pc' = "request"
    /\ UNCHANGED <<ARGS, settings, paths, net, file, file0, save_dir,
                   search_history, loaded, i, search_results, matching_results,
                   j, reqs, sleeps, fetched, writes, exit_code, cause, run,
                   asked>>

\* the aggregator's answer to the current release's query: chosen when the
\* release is first asked for, the same from then on
Answers(outcome) ==
    /\ outcome \in Outcomes
    /\ net[local_release_data.basename] \in {Unknown, outcome}
    /\ net' = [net EXCEPT ![local_release_data.basename] = outcome]

\* Searcher.search, lines 117-119: requests.get returns, the loop is left
RequestOk ==
    /\ pc = "request"
    /\ \E outcome \in Outcomes :
        /\ Answers(outcome)
        /\ outcome.attempts[n + 1] = "ok"
        /\ resp' = [status |-> "received", body |-> outcome.body]
    /\ reqs' = reqs + 1
    /\ pc' = "response"
    /\ asked' = TRUE
    /\ UNCHANGED <<ARGS, settings, paths, file, file0, save_dir, search_history,
                   loaded, i, n, search_results, matching_results, j, sleeps,
                   fetched, writes, exit_code, cause, run>>

\* Mutation of RequestFail: every failure is slept on and retried
RequestFail_retrying_again(attempt) ==
    /\ pc = "request"
    /\ \E outcome \in Outcomes :
        /\ Answers(outcome)
        /\ outcome.attempts[attempt + 1] = "fail"
    /\ reqs' = reqs + 1
    /\ sleeps' = sleeps + 1
    /\ n' = 1
    /\ pc' = "request"
    /\ asked' = FALSE
    /\ UNCHANGED <<ARGS, settings, paths, file, file0, save_dir, search_history,
                   loaded, i, resp, search_results, matching_results, j,
                   fetched, writes, exit_code, cause, run>>

\* Mutation of RequestFail: the retry is made at once, without the sleep of
\* lines 122 and 126
RequestFail_retrying_at_once(attempt) ==
    /\ pc = "request"
    /\ \E outcome \in Outcomes :
        /\ Answers(outcome)
        /\ outcome.attempts[attempt + 1] = "fail"
    /\ reqs' = reqs + 1
    /\ sleeps' = sleeps
    /\ IF attempt = 0
       THEN n' = 1 /\ pc' = "request"
       ELSE n' = n /\ pc' = "response"
    /\ asked' = TRUE
    /\ UNCHANGED <<ARGS, settings, paths, file, file0, save_dir,
                   search_history, loaded, i, resp, search_results,
                   matching_results, j, fetched, writes, exit_code, cause,
                   run>>

\* Searcher.search, lines 117-127: requests.get raises ReadTimeout or
\* ConnectionError; the first time the delay is slept and the loop goes on,
\* the second time the loop ends with resp = None
RequestFail(attempt) ==
    /\ pc = "request"
    /\ \E outcome \in Outcomes :
        /\ Answers(outcome)
        /\ outcome.attempts[attempt + 1] = "fail"
    /\ reqs' = reqs + 1
    /\ IF attempt = 0
       THEN /\ sleeps' = sleeps + 1
            /\ n' = 1
            /\ pc' = "request"
       ELSE /\ sleeps' = sleeps
            /\ n' = n
            /\ pc' = "response"
    /\ asked' = (attempt # 0)
    /\ UNCHANGED <<ARGS, settings, paths, file, file0, save_dir, search_history,
                   loaded, i, resp, search_results, matching_results, j,
                   fetched, writes, exit_code, cause, run>>

\* `not resp` (line 129): no response, or one whose status is 400 or more
NotResp(r) == r.status = "none" \/ ~r.body.http_ok

\* Mutation of ResponseEmpty: the basename is recorded before [] is returned
\* (lines 148-150 moved above line 129)
ResponseEmpty_recording ==
    /\ pc = "response"
    /\ NotResp(resp) \/ ~resp.body.json_ok
    /\ search_history' =
           append_basename(local_release_data.basename, search_history)
    /\ matching_results' = <<>>
    /\ j' = 1
    /\ pc' = "download"
    /\ UNCHANGED <<ARGS, settings, paths, net, file, file0, save_dir, loaded,
                   i, n, resp, search_results, reqs, sleeps, fetched, writes,
                   exit_code, cause, run, asked>>

\* Searcher.search, lines 129-139: no usable response, [] is returned
ResponseEmpty ==
    /\ pc = "response"
    /\ NotResp(resp) \/ ~resp.body.json_ok
    /\ matching_results' = <<>>
    /\ j' = 1
    /\ pc' = "download"
    /\ UNCHANGED <<ARGS, settings, paths, net, file, file0, save_dir,
                   search_history, loaded, i, n, resp, search_results, reqs,
                   sleeps, fetched, writes, exit_code, cause, run, asked>>

\* Mutation of ResponseNoIndexers: the release is given up, not the run
ResponseNoIndexers_skipping_release ==
    /\ pc = "response"
    /\ ~NotResp(resp)
    /\ resp.body.json_ok
    /\ resp.body.Indexers = <<>>
    /\ matching_results' = <<>>
    /\ j' = 1
    /\ pc' = "download"
    /\ UNCHANGED <<ARGS, settings, paths, net, file, file0, save_dir,
                   search_history, loaded, i, n, resp, search_results, reqs,
                   sleeps, fetched, writes, exit_code, cause, run, asked>>

\* Searcher.search, lines 141-146: no indexer answered, exit(1)
ResponseNoIndexers ==
    /\ pc = "response"
    /\ ~NotResp(resp)
    /\ resp.body.json_ok
    /\ resp.body.Indexers = <<>>
    /\ Exit(1, "no_indexers")
    /\ UNCHANGED <<ARGS, settings, paths, net, file, file0, save_dir,
                   search_history, loaded, i, n, resp, search_results,
                   matching_results, j, reqs, sleeps, fetched, writes, run,
                   asked>>

\* Mutation of ResponseResults: the basename is recorded only when the
\* history is not ignored
ResponseResults_unless_ignoring ==
    /\ pc = "response"
    /\ ~NotResp(resp)
    /\ resp.body.json_ok
    /\ resp.body.Indexers # <<>>
    /\ search_history' =
           IF ARGS.ignore_history THEN search_history
           ELSE append_basename(local_release_data.basename, search_history)
    /\ search_results' = _trim_results(resp.body.Results)
    /\ matching_results' =
           _get_matching_results(_trim_results(resp.body.Results),
                                 local_release_data, ARGS)
    /\ j' = 1
    /\ pc' = "download"
    /\ UNCHANGED <<ARGS, settings, paths, net, file, file0, save_dir, loaded, i,
                   n, resp, reqs, sleeps, fetched, writes, exit_code, cause, run,
                   asked>>

\* Searcher.search, lines 148-153: the basename is recorded, the results
\* are trimmed and matched
ResponseResults ==
    /\ pc = "response"
    /\ ~NotResp(resp)
    /\ resp.body.json_ok
    /\ resp.body.Indexers # <<>>
    /\ search_history' =
           append_basename(local_release_data.basename, search_history)
    /\ search_results' = _trim_results(resp.body.Results)
    /\ matching_results' =
           _get_matching_results(_trim_results(resp.body.Results),
                                 local_release_data, ARGS)
    /\ j' = 1
    /\ pc' = "download"
    /\ UNCHANGED <<ARGS, settings, paths, net, file, file0, save_dir, loaded, i,
                   n, resp, reqs, sleeps, fetched, writes, exit_code, cause, run,
                   asked>>

\* Mutation of download_skips: the history is not consulted
download_skips_without_history(result, history, args) ==
    result.Link = None

\* Downloader.download returns before the request (lines 255-263)
download_skips(result, history, args) ==
    \/ result.Link = None
    \/ ~args.ignore_history /\ is_torrent_previously_grabbed(result, history)

\* Mutation of DownloadSkip: a skipped result ends the loop of line 373
\* (`break` for the `return` of lines 258 and 263 inlined)
DownloadSkip_leaving_loop ==
    /\ pc = "download"
    /\ j <= Len(matching_results)
    /\ download_skips(matching_results[j], search_history, ARGS)
    /\ j' = Len(matching_results) + 1
    /\ UNCHANGED <<ARGS, settings, paths, net, file, file0, save_dir,
                   search_history, loaded, pc, i, n, resp, search_results,
                   matching_results, reqs, sleeps, fetched, writes, exit_code,
                   cause, run, asked>>

\* Downloader.download, lines 252-263: no link, or grabbed before
DownloadSkip ==
    /\ pc = "download"
    /\ j <= Len(matching_results)
    /\ download_skips(matching_results[j], search_history, ARGS)
    /\ j' = j + 1
    /\ UNCHANGED <<ARGS, settings, paths, net, file, file0, save_dir,
                   search_history, loaded, pc, i, n, resp, search_results,
                   matching_results, reqs, sleeps, fetched, writes, exit_code,
                   cause, run, asked>>

\* Downloader.download, lines 265-275: the torrent is requested and saved,
\* the grab is recorded
DownloadGrab ==
    /\ pc = "download"
    /\ j <= Len(matching_results)
    /\ ~download_skips(matching_results[j], search_history, ARGS)
    /\ fetched' = Append(fetched, matching_results[j])
    /\ save_dir' = save_dir \cup {torrent_path(matching_results[j], save_dir)}
    /\ search_history' =
           append_to_download_history(matching_results[j].Details,
                                      matching_results[j].TrackerId,
                                      search_history)
    /\ j' = j + 1
    /\ UNCHANGED <<ARGS, settings, paths, net, file, file0, loaded, pc, i, n,
                   resp, search_results, matching_results, reqs, sleeps,
                   writes, exit_code, cause, run, asked>>

\* Mutation of DownloadFail: the grab is recorded before the request is made
\* (line 275 moved above line 271)
DownloadFail_recording_first ==
    /\ pc = "download"
    /\ j <= Len(matching_results)
    /\ ~download_skips(matching_results[j], search_history, ARGS)
    /\ search_history' =
           append_to_download_history(matching_results[j].Details,
                                      matching_results[j].TrackerId,
                                      search_history)
    /\ fetched' = Append(fetched, matching_results[j])
    /\ Exit(1, "download_error")
    /\ UNCHANGED <<ARGS, settings, paths, net, file, file0, save_dir, loaded,
                   i, n, resp, search_results, matching_results, j, reqs,
                   sleeps, writes, run, asked>>

\* Downloader.download, line 271: requests.get raises (timeout, connection
\* refused); nothing catches it, the traceback ends the process, status 1
DownloadFail ==
    /\ pc = "download"
    /\ j <= Len(matching_results)
    /\ ~download_skips(matching_results[j], search_history, ARGS)
    /\ fetched' = Append(fetched, matching_results[j])
    /\ Exit(1, "download_error")
    /\ UNCHANGED <<ARGS, settings, paths, net, file, file0, save_dir,
                   search_history, loaded, i, n, resp, search_results,
                   matching_results, j, reqs, sleeps, writes, run, asked>>

\* Mutation of Sleep: the ledger is flushed after every release
Sleep_flushing ==
    /\ pc = "download"
    /\ j > Len(matching_results)
    /\ sleeps' = sleeps + 1
    /\ i' = i + 1
    /\ pc' = AfterPath(i)
    /\ file' = [exists |-> TRUE, data |-> search_history]
    /\ writes' = writes + 1
    /\ asked' = FALSE
    /\ UNCHANGED <<ARGS, settings, paths, net, file0, save_dir, search_history,
                   loaded, n, resp, search_results, matching_results, j, reqs,
                   fetched, exit_code, cause, run>>

\* main(), line 376: the results are done, the delay is slept
Sleep ==
    /\ pc = "download"
    /\ j > Len(matching_results)
    /\ sleeps' = sleeps + 1
    /\ i' = i + 1
    /\ pc' = AfterPath(i)
    /\ asked' = FALSE
    /\ UNCHANGED <<ARGS, settings, paths, net, file, file0, save_dir,
                   search_history, loaded, n, resp, search_results,
                   matching_results, j, reqs, fetched, writes, exit_code, cause,
                   run>>

\* main(), lines 378-380: the ledger is written, main returns
Persist ==
    /\ pc = "persist"
    /\ file' = [exists |-> TRUE, data |-> search_history]
    /\ writes' = writes + 1
    /\ pc' = "done"
    /\ exit_code' = 0
    /\ cause' = "completed"
    /\ UNCHANGED <<ARGS, settings, paths, net, file0, save_dir, search_history,
                   loaded, i, n, resp, search_results, matching_results, j,
                   reqs, sleeps, fetched, run, asked>>

\* the same command line is run again: a new process over the same input,
\* the same aggregator and the ledger file the run before left
NextRun ==
    /\ pc = "done"
    /\ run < MaxRuns
    /\ file0' = file
    /\ search_history' = EmptyHistory
    /\ loaded' = EmptyHistory
    /\ pc' = "start"
    /\ i' = 1
    /\ n' = 0
    /\ resp' = NoResponse
    /\ search_results' = <<>>
    /\ matching_results' = <<>>
    /\ j' = 1
    /\ reqs' = 0
    /\ sleeps' = 0
    /\ fetched' = <<>>
    /\ writes' = 0
    /\ exit_code' = NotExited
    /\ cause' = "running"
    /\ run' = run + 1
    /\ asked' = FALSE
    /\ UNCHANGED <<ARGS, settings, paths, net, file, save_dir>>

Next ==
    \/ StartFails
    \/ Start
    \/ ProfileSkip
    \/ Profile
    \/ SearchSkip
    \/ SearchBegin
    \/ RequestOk
    \/ RequestFail(n)
    \/ ResponseEmpty
    \/ ResponseNoIndexers
    \/ ResponseResults
    \/ DownloadSkip
    \/ DownloadGrab
    \/ DownloadFail
    \/ Sleep
    \/ Persist
    \/ NextRun

Spec == Init /\ [][Next]_vars

----------------------------------------------------------------------------
(* The match step on its own: Searcher._get_matching_results applied to    *)
(* result lists whose sizes lie on and around the tolerances.              *)

\* size differences on both sides of 0, 5 MiB and 10 MiB
MatchDifferences ==
    LET d == {0, 1, 5 * MiB, 5 * MiB + 1, 10 * MiB, 10 * MiB + 1}
    IN  d \cup {0 - x : x \in d}

MatchCandidates ==
    {trim_result(RawResult(t[1], t[2], <<"A">>, "l", UrlT5, SizeA + d)) :
        t \in {<<TorrentLeech, "tl">>, <<Blutopia, "blu">>},
        d \in MatchDifferences}

\* the sequences over S of length at most m
SeqsUpTo(S, m) == UNION {[1..k -> S] : k \in 0..m}

InitMatch ==
    /\ ARGS \in [parse_dir : {FALSE}, ignore_history : {FALSE},
                 strict_size : BOOLEAN]
    /\ settings = "ok"
    /\ paths = <<RelA>>
    /\ net = [b \in Basenames |-> Unknown]
    /\ file = [exists |-> FALSE, data |-> EmptyHistory]
    /\ file0 = file
    /\ save_dir = {}
    /\ search_history = EmptyHistory
    /\ loaded = EmptyHistory
    /\ pc = "match"
    /\ i = 1
    /\ n = 0
    /\ resp = NoResponse
    /\ search_results \in SeqsUpTo(MatchCandidates, MaxResults)
    /\ matching_results = <<>>
    /\ j = 1
    /\ reqs = 1
    /\ sleeps = 0
    /\ fetched = <<>>
    /\ writes = 0
    /\ exit_code = NotExited
    /\ cause = "running"
    /\ run = 1
    /\ asked = TRUE

\* Searcher.search, line 153: the trimmed results are matched
Match ==
    /\ pc = "match"
    /\ matching_results' =
           _get_matching_results(search_results, local_release_data, ARGS)
    /\ pc' = "matched"
    /\ UNCHANGED <<ARGS, settings, paths, net, file, file0, save_dir,
                   search_history, loaded, i, n, resp, search_results, j, reqs,
                   sleeps, fetched, writes, exit_code, cause, run, asked>>

NextMatch == Match

SpecMatch == InitMatch /\ [][NextMatch]_vars

----------------------------------------------------------------------------
(* The trim step on its own: Searcher._trim_results applied to a response  *)
(* of one result, over every one-line title of the characters the pattern  *)
(* of line 212 tells apart, and applied again to what it returned.         *)

\* a character the pattern takes as any other, and the four it names
TitleChars == {"A", " ", "[", "/", "]"}

Titles == SeqsUpTo(TitleChars, MaxTitleLen)

InitTrim ==
    /\ ARGS \in [parse_dir : {FALSE}, ignore_history : {FALSE},
                 strict_size : {FALSE}]
    /\ settings = "ok"
    /\ paths = <<RelA>>
    /\ net = [b \in Basenames |-> Unknown]
    /\ file = [exists |-> FALSE, data |-> EmptyHistory]
    /\ file0 = file
    /\ save_dir = {}
    /\ search_history = EmptyHistory
    /\ loaded = EmptyHistory
    /\ pc = "trim"
    /\ i = 1
    /\ n = 0
    /\ \E title \in Titles :
        resp = [status |-> "received",
                body |-> Body(TRUE, TRUE, <<"tl", "blu">>,
                              <<RawResult(TorrentLeech, "tl", title, "l1",
                                          UrlT5, SizeA)>>)]
    /\ search_results = <<>>
    /\ matching_results = <<>>
    /\ j = 1
    /\ reqs = 1
    /\ sleeps = 0
    /\ fetched = <<>>
    /\ writes = 0
    /\ exit_code = NotExited
    /\ cause = "running"
    /\ run = 1
    /\ asked = TRUE

\* Searcher.search, line 152: the results of the response are trimmed
Trim ==
    /\ pc = "trim"
    /\ search_results' = _trim_results(resp.body.Results)
    /\ pc' = "trimmed"
    /\ UNCHANGED <<ARGS, settings, paths, net, file, file0, save_dir,
                   search_history, loaded, i, n, resp, matching_results, j,
                   reqs, sleeps, fetched, writes, exit_code, cause, run, asked>>

\* Searcher._trim_results applied to results it returned
TrimAgain ==
    /\ pc = "trimmed"
    /\ search_results' = _trim_results(search_results)
    /\ pc' = "retrimmed"
    /\ UNCHANGED <<ARGS, settings, paths, net, file, file0, save_dir,
                   search_history, loaded, i, n, resp, matching_results, j,
                   reqs, sleeps, fetched, writes, exit_code, cause, run, asked>>

NextTrim ==
    \/ Trim
    \/ TrimAgain

SpecTrim == InitTrim /\ [][NextTrim]_vars

----------------------------------------------------------------------------
(* Properties.                                                             *)

\* the current release's query got through: a response below status 400,
\* a JSON body, a non-empty Indexers list
QuerySucceeded ==
    /\ ~NotResp(resp)
    /\ resp.body.json_ok
    /\ resp.body.Indexers # <<>>

\* a ledger without duplicates
NoDuplicateEntries(history) ==
    /\ NoDuplicates(history.basenames_searched)
    /\ \A t \in DOMAIN history.download_history :
          NoDuplicates(history.download_history[t])

\* C1: starting from a ledger without duplicates, whatever was searched and
\* downloaded and in whatever mode, no basename is twice in
\* basenames_searched and no path is twice under one tracker id in
\* download_history, in memory and on disk.
C1_NoDuplicateEntries ==
    /\ NoDuplicateEntries(search_history)
    /\ file.exists => NoDuplicateEntries(file.data)

\* C1's case: with the history ignored, a release found in the loaded ledger
\* was searched again and a torrent found in it was grabbed again.
C1_Witness ==
    /\ ARGS.ignore_history
    /\ pc = "download"
    /\ j > Len(matching_results)
    /\ reqs > 0
    /\ QuerySucceeded
    /\ is_file_previously_searched(local_release_data.basename, loaded)
    /\ \E k \in 1..Len(fetched) :
          is_torrent_previously_grabbed(fetched[k], loaded)

\* the part of a URL after scheme and authority: from its third "/" on
PathAfterAuthority(u) ==
    LET slashes == {k \in 1..Len(u) : u[k] = "/"}
    IN  IF Cardinality(slashes) < 3 THEN <<>>
        ELSE Suffix(u, CHOOSE k \in slashes :
                          Cardinality({l \in slashes : l < k}) = 2)

\* two results are the same history entry
SameEntry(a, b) ==
    /\ a.TrackerId = b.TrackerId
    /\ PathAfterAuthority(a.Details) = PathAfterAuthority(b.Details)

\* the ledger holds the result's entry
Recorded(result, history) ==
    /\ result.TrackerId \in DOMAIN history.download_history
    /\ Contains(history.download_history[result.TrackerId],
                PathAfterAuthority(result.Details))

\* C2: with the history not ignored, no step requests the torrent of a
\* result whose path after scheme and authority is recorded under its
\* tracker id, nor of one that is the same entry as a result requested
\* earlier in the run, whatever scheme, host and port its URL has.
C2_NeverFetchesRecorded ==
    [][(~ARGS.ignore_history /\ Len(fetched') > Len(fetched)) =>
         LET result == fetched'[Len(fetched')]
         IN  /\ ~Recorded(result, search_history)
             /\ \A k \in 1..Len(fetched) : ~SameEntry(fetched[k], result)]_vars

\* C2's case: of two matches that differ in scheme, host and port only, the
\* first was grabbed and the second skipped.
C2_Witness ==
    /\ ~ARGS.ignore_history
    /\ pc = "download"
    /\ Len(matching_results) = 2
    /\ j = 3
    /\ matching_results[1].Details # matching_results[2].Details
    /\ SameEntry(matching_results[1], matching_results[2])
    /\ fetched = <<matching_results[1]>>

\* C3 as claimed: a run that loaded the ledger a completed run over the same
\* input persisted requests no torrent and ends with the ledger it loaded.
C3_Original ==
    (pc = "done" /\ run > 1) =>
        /\ fetched = <<>>
        /\ search_history = loaded
        /\ file = file0

\* C3: such a run ends with the ledger it loaded, and when the history is
\* not ignored it requests no torrent.
C3_SecondRunChangesNothing ==
    (pc = "done" /\ run > 1) =>
        /\ ~ARGS.ignore_history => fetched = <<>>
        /\ search_history = loaded
        /\ file = file0

\* C3's case: a second run ended over a ledger of two releases and grabs
\* from two trackers.
C3_Witness ==
    /\ pc = "done"
    /\ run > 1
    /\ ~ARGS.ignore_history
    /\ Len(loaded.basenames_searched) = 2
    /\ DOMAIN loaded.download_history = {"tl", "blu"}
    /\ reqs > 0

\* C4: called for a basename in basenames_searched, search returns [] and
\* issues no request when parse-dir is on and the history is not ignored;
\* otherwise, the size being known, it goes on to a request.
C4_SkipsSearchedBasename ==
    [][/\ (/\ pc = "search"
           /\ Contains(search_history.basenames_searched,
                       local_release_data.basename))
          => IF ARGS.parse_dir /\ ~ARGS.ignore_history
             THEN /\ pc' = "download"
                  /\ matching_results' = <<>>
                  /\ reqs = 0
                  /\ reqs' = 0
             ELSE local_release_data.size # NoSize => pc' = "request"
       /\ pc = "request" => reqs' = reqs + 1]_vars

\* C4's case: search returned for a searched basename of known size without
\* a request.
C4_Witness ==
    /\ pc = "download"
    /\ reqs = 0
    /\ matching_results = <<>>
    /\ ARGS.parse_dir
    /\ ~ARGS.ignore_history
    /\ local_release_data.size # NoSize
    /\ Contains(search_history.basenames_searched, local_release_data.basename)

\* C5 as claimed: a query that succeeded leaves the basename in
\* basenames_searched when the history is not ignored, and leaves
\* basenames_searched as it was when it is ignored.
C5_Original ==
    [][(pc = "response" /\ QuerySucceeded) =>
         IF ARGS.ignore_history
         THEN search_history'.basenames_searched
                  = search_history.basenames_searched
         ELSE Contains(search_history'.basenames_searched,
                       local_release_data.basename)]_vars

\* C5: a query that succeeded, even with zero results, leaves the basename
\* in basenames_searched, whether the history is ignored or not.
C5_RecordsBasename ==
    [][(pc = "response" /\ QuerySucceeded) =>
         /\ pc' = "download"
         /\ Contains(search_history'.basenames_searched,
                     local_release_data.basename)]_vars

\* C5's case: with the history ignored, a query with zero results recorded a
\* basename the loaded ledger did not hold.
C5_Witness ==
    /\ ARGS.ignore_history
    /\ pc = "download"
    /\ reqs > 0
    /\ QuerySucceeded
    /\ resp.body.Results = <<>>
    /\ ~Contains(loaded.basenames_searched, local_release_data.basename)
    /\ Contains(search_history.basenames_searched, local_release_data.basename)

\* C6: the ledger file is written once in a run that completes, after the
\* last path, and never in a run that ends earlier: until then the file is
\* what it was at the start.
C6_WrittenOnceAtEnd ==
    /\ writes <= 1
    /\ writes = 1 <=> pc = "done"
    /\ pc = "done" => i = Len(paths) + 1
    /\ pc # "done" => file = file0

\* C6's case: a run ended early with a ledger in memory that differs from
\* the one it loaded.
C6_Witness ==
    /\ pc = "aborted"
    /\ search_history # loaded
    /\ writes = 0
    /\ file = file0

\* C7: a response with an empty Indexers list ends the process with a
\* non-zero status, the ledger in memory and the file untouched, and nothing
\* happens after.
C7_NoIndexersAborts ==
    [][/\ (/\ pc = "response"
           /\ ~NotResp(resp)
           /\ resp.body.json_ok
           /\ resp.body.Indexers = <<>>)
          => /\ pc' = "aborted"
             /\ exit_code' \notin {0, NotExited}
             /\ search_history' = search_history
             /\ file' = file
             /\ file' = file0
             /\ <<i, reqs, fetched, writes>>' = <<i, reqs, fetched, writes>>
       /\ pc = "aborted" => vars' = vars]_vars

\* C7's case: the run ended on an empty Indexers list with a path left and
\* the current basename not in the ledger.
C7_Witness ==
    /\ pc = "aborted"
    /\ cause = "no_indexers"
    /\ exit_code = 1
    /\ i < Len(paths)
    /\ ~Contains(search_history.basenames_searched, local_release_data.basename)
    /\ search_history # EmptyHistory

\* C8: a release gets at most two requests; a first request that fails is
\* followed by one sleep and the second request; after the second request
\* none follows, and when it failed too search returns [] and the run goes
\* on to the next path.
C8_OneRetry ==
    [][/\ reqs' <= 2
       /\ (/\ pc = "request"
           /\ n = 0
           /\ net'[local_release_data.basename].attempts[1] = "fail")
          => /\ pc' = "request"
             /\ n' = 1
             /\ reqs' = 1
             /\ sleeps' = sleeps + 1
       /\ (pc = "request" /\ n = 1)
          => /\ pc' = "response"
             /\ reqs' = 2
             /\ sleeps' = sleeps
       /\ (pc = "response" /\ resp.status = "none")
          => /\ matching_results' = <<>>
             /\ pc' = "download"
             /\ exit_code' = NotExited
       /\ (pc = "download" /\ matching_results = <<>>)
          => /\ i' = i + 1
             /\ pc' \in {"profile", "persist"}]_vars

\* C8's case: both requests failed, search returned [] and the next path is
\* being processed.
C8_Witness ==
    /\ pc = "profile"
    /\ i = 2
    /\ reqs = 2
    /\ resp.status = "none"
    /\ matching_results = <<>>
    /\ sleeps = 2

\* C9 as claimed: a timeout or connection failure of a torrent request never
\* ends the run.
C9_DownloadFailureNeverAborts ==
    ~(pc = "aborted" /\ cause = "download_error")

\* the tolerance of C10 for one result, in bytes: 0 in strict mode, else
\* 5 MiB, and 10 MiB for Blutopia
Tolerance(result) ==
    IF ARGS.strict_size THEN 0
    ELSE IF result.Tracker = Blutopia THEN 10485760
    ELSE 5242880

\* the size difference of a result and the local release
Difference(result) ==
    IF result.Size >= local_release_data.size
    THEN result.Size - local_release_data.size
    ELSE local_release_data.size - result.Size

\* C10: the match step returns exactly the results whose size differs from
\* the local size by at most the tolerance, in the order they came in: 0 in
\* strict mode, 5 MiB otherwise, twice that for Blutopia.
C10_MatchesWithinTolerance ==
    pc = "matched" =>
        LET Within(result) == Difference(result) <= Tolerance(result)
        IN  matching_results = SelectSeq(search_results, Within)

\* C10's case: in default mode a Blutopia result 10 MiB off matched and
\* another tracker's result 5 MiB + 1 off did not.
C10_Witness ==
    /\ pc = "matched"
    /\ ~ARGS.strict_size
    /\ Len(search_results) = 2
    /\ search_results[1].Tracker = Blutopia
    /\ Difference(search_results[1]) = 10485760
    /\ search_results[2].Tracker # Blutopia
    /\ Difference(search_results[2]) = 5242881
    /\ matching_results = <<search_results[1]>>

\* the release main() is working on has been profiled and not yet left
InPipeline == pc \in {"search", "request", "response", "download"}

\* C11: a release whose total size is None is never submitted to the
\* aggregator: while it is the current release no request is issued, no
\* torrent is fetched, no file is saved and the ledger (its basename
\* included) stays as it was, whatever the mode.
C11_SizelessNeverSearched ==
    [][(InPipeline /\ local_release_data.size = NoSize) =>
           /\ pc' \in {"download", "profile", "persist"}
           /\ reqs' = 0
           /\ asked' = FALSE
           /\ matching_results' = <<>>
           /\ fetched' = fetched
           /\ save_dir' = save_dir
           /\ search_history' = search_history]_vars

\* C11's case: with --ignore-history and a single input path, a directory
\* holding a link whose target is gone was profiled, its size came out as
\* None and its search was skipped without a request; its basename is not
\* in the ledger.
C11_Witness ==
    /\ pc = "download"
    /\ ARGS.ignore_history
    /\ ~ARGS.parse_dir
    /\ local_release_data.size = NoSize
    /\ local_release_data.title # None
    /\ reqs = 0
    /\ matching_results = <<>>
    /\ ~Contains(search_history.basenames_searched,
                 local_release_data.basename)

\* the file name of a sanitized release name, plain and with " (k)" before
\* the extension
PlainName(release_name) == release_name \o TorrentExt

NumberedName(release_name, k) ==
    release_name \o <<" ", "(">> \o str(k) \o <<")">> \o TorrentExt

\* the step fetches a torrent and goes on
Fetches ==
    /\ pc = "download"
    /\ Len(fetched') = Len(fetched) + 1
    /\ pc' # "aborted"

\* C12: no file of the save directory is ever replaced or removed; a fetch
\* that returns adds exactly one file, under the plain name if that is free
\* and otherwise under the name numbered with the smallest k >= 1 that is
\* free; nothing else adds a file.
C12_NeverOverwrites ==
    [][/\ save_dir \subseteq save_dir'
       /\ save_dir' # save_dir => Fetches
       /\ Fetches =>
              LET release_name == release_name_of(matching_results[j])
                  taken(k) == NumberedName(release_name, k) \in save_dir
              IN  /\ Cardinality(save_dir') = Cardinality(save_dir) + 1
                  /\ \E written \in save_dir' \ save_dir :
                      IF PlainName(release_name) \notin save_dir
                      THEN written = PlainName(release_name)
                      ELSE \E k \in 1..(Cardinality(save_dir) + 1) :
                              /\ written = NumberedName(release_name, k)
                              /\ ~taken(k)
                              /\ \A l \in 1..(k - 1) : taken(l)]_vars

\* C12's case: the save directory held "A [TL].torrent" before the run; two
\* results of that name were fetched, and the directory now holds the plain
\* name, " (1)" and " (2)" and nothing else.
C12_Witness ==
    /\ run = 1
    /\ Len(fetched) = 2
    /\ release_name_of(fetched[1]) = release_name_of(fetched[2])
    /\ save_dir = {PlainName(release_name_of(fetched[1])),
                   NumberedName(release_name_of(fetched[1]), 1),
                   NumberedName(release_name_of(fetched[1]), 2)}

\* C13: when the process has ended its exit status is 0 exactly if the run
\* completed: every start-up failure of the settings (input path or save
\* directory missing, aggregator URL malformed, aggregator unreachable) and
\* the unmatched-tracker abort end with a status other than 0.
C13_ZeroOnlyOnCompletion ==
    exit_code # NotExited => (exit_code = 0 <=> cause = "completed")

\* s is a block " [...]" with a "/" between the brackets
IsSlashBlock(s) ==
    /\ Len(s) >= 4
    /\ SubSeq(s, 1, 2) = <<" ", "[">>
    /\ s[Len(s)] = "]"
    /\ \E k \in 3..(Len(s) - 1) : s[k] = "/"

\* the lengths of the non-empty parts of a title that such a block follows
\* to the title's end
PartsBeforeBlock(title) ==
    {k \in 1..(Len(title) - 1) : IsSlashBlock(Suffix(title, k + 1))}

\* C14: canonicalizing a title that ends with a " [...]" block holding a "/"
\* gives a part of the title that such a block follows; a title with no such
\* block after a part of it comes back unchanged; canonicalizing the result
\* again changes nothing.
C14_StripsTrailingBlock ==
    [][/\ pc = "trim" =>
              LET title == resp.body.Results[1].Title
                  canonical == search_results'[1].Title
              IN  IF PartsBeforeBlock(title) # {}
                  THEN \E k \in PartsBeforeBlock(title) :
                          canonical = SubSeq(title, 1, k)
                  ELSE canonical = title
       /\ pc = "trimmed" => search_results' = search_results]_vars

\* C14's case: a title of one character and the block " [/]" was trimmed to
\* the character, and trimming the result again has been done.
C14_Witness ==
    /\ pc = "retrimmed"
    /\ resp.body.Results[1].Title = <<"A", " ", "[", "/", "]">>
    /\ search_results[1].Title = <<"A">>

\* C15: within a run the paths are taken one at a time in list order; the
\* aggregator is asked only in the search phase and nothing is fetched
\* then; the download phase starts from the first match once the search
\* has returned, takes the matches one by one in the order of the list,
\* which stays as it is, and the next path is turned to only when the last
\* match is done.
C15_StrictlySequential ==
    [][run' = run =>
           /\ paths' = paths
           /\ i' \in {i, i + 1}
           /\ i' = i + 1 =>
                  \/ pc = "profile"
                  \/ pc = "download" /\ j > Len(matching_results)
           /\ reqs' > reqs => pc = "request" /\ fetched' = fetched
           /\ (pc' = "download" /\ pc # "download") =>
                  /\ pc \in {"search", "response"}
                  /\ j' = 1
                  /\ i' = i
           /\ (pc = "download" /\ j <= Len(matching_results)) =>
                  /\ i' = i
                  /\ matching_results' = matching_results
                  /\ j' = j + 1 \/ pc' = "aborted"
                  /\ \/ fetched' = fetched
                     \/ fetched' = Append(fetched, matching_results[j])
           /\ fetched' # fetched =>
                  pc = "download" /\ j <= Len(matching_results)]_vars

\* C15's case: the first path's search matched two results, both were
\* fetched in turn, and the second path is now about to be profiled.
C15_Witness ==
    /\ run = 1
    /\ pc = "profile"
    /\ i = 2
    /\ Len(matching_results) = 2
    /\ fetched = matching_results

\* the step leaves the current path for what comes after it
LeavesPath == run' = run /\ i' = i + 1

\* C16 as claimed: every path, one without a title and one whose search was
\* skipped included, is left by a step that sleeps the delay.
C16_Original ==
    [][LeavesPath => sleeps' = sleeps + 1]_vars

\* C16: every path whose title could be extracted, one whose search was
\* skipped included, is left by a step that sleeps the delay once, after
\* its last download; a path without a title is left without a sleep.
C16_DelayAfterTitledPath ==
    [][LeavesPath =>
           IF local_release_data.title = None
           THEN pc = "profile" /\ sleeps' = sleeps
           ELSE /\ pc = "download"
                /\ j > Len(matching_results)
                /\ sleeps' = sleeps + 1]_vars

\* C16's case: of two paths the first had no title and was left without a
\* sleep; the second had one, its search was skipped without a request, and
\* the delay was slept after it.
C16_Witness ==
    /\ run = 1
    /\ pc = "persist"
    /\ Len(paths) = 2
    /\ get_release_data(paths[1]).title = None
    /\ get_release_data(paths[2]).title # None
    /\ net[get_release_data(paths[2]).basename] = Unknown
    /\ sleeps = 1

\* every basename and every (tracker id, details path) entry of the ledger
\* old is in the ledger new
KeepsEntries(old, new) ==
    /\ \A k \in 1..Len(old.basenames_searched) :
           Contains(new.basenames_searched, old.basenames_searched[k])
    /\ \A t \in DOMAIN old.download_history :
           /\ t \in DOMAIN new.download_history
           /\ \A k \in 1..Len(old.download_history[t]) :
                  Contains(new.download_history[t],
                           old.download_history[t][k])

\* C17: no step of a run takes an entry out of the in-memory ledger: every
\* basename and every (tracker id, details path) entry it holds before the
\* step it holds after it, and what was loaded at start it holds throughout.
C17_LedgerOnlyGrows ==
    [][run' = run =>
           /\ KeepsEntries(search_history, search_history')
           /\ KeepsEntries(loaded', search_history')]_vars

\* C17's case: the run loaded a ledger of one basename and one grab, has
\* since recorded a second basename and a second grab, and still holds the
\* loaded entries.
C17_Witness ==
    /\ loaded.basenames_searched # <<>>
    /\ DOMAIN loaded.download_history # {}
    /\ Len(search_history.basenames_searched) >
           Len(loaded.basenames_searched)
    /\ \E t \in DOMAIN loaded.download_history :
           Len(search_history.download_history[t]) >
               Len(loaded.download_history[t])
    /\ KeepsEntries(loaded, search_history)

\* the number of (tracker id, details path) entries of a ledger
GrabCount(history) ==
    LET RECURSIVE sum(_)
        sum(T) == IF T = {} THEN 0
                  ELSE LET t == CHOOSE t \in T : TRUE
                       IN  Len(history.download_history[t]) + sum(T \ {t})
    IN  sum(DOMAIN history.download_history)

\* C18: in a call of download for a result, the ledger changes only by that
\* result's entry being added, and only in a step that requested the
\* torrent, got it and wrote a new file; a fetch that got through leaves the
\* entry recorded; a fetch that failed leaves ledger and save directory as
\* they were; a call for a result without link, or (history not ignored)
\* with its entry recorded, requests nothing, writes nothing and leaves the
\* ledger as it was.
C18_RecordsOnlyAfterFetch ==
    [][(pc = "download" /\ j <= Len(matching_results)) =>
           LET result == matching_results[j]
               requested == fetched' = Append(fetched, result)
               failed == pc' = "aborted"
               skips == \/ result.Link = None
                        \/ /\ ~ARGS.ignore_history
                           /\ Recorded(result, search_history)
           IN  /\ skips =>
                      /\ fetched' = fetched
                      /\ save_dir' = save_dir
                      /\ search_history' = search_history
               /\ search_history' # search_history =>
                      /\ requested
                      /\ ~failed
                      /\ Cardinality(save_dir' \ save_dir) = 1
                      /\ ~Recorded(result, search_history)
                      /\ GrabCount(search_history') =
                             GrabCount(search_history) + 1
                      /\ search_history'.basenames_searched =
                             search_history.basenames_searched
               /\ (requested /\ ~failed) => Recorded(result, search_history')
               /\ failed =>
                      /\ search_history' = search_history
                      /\ save_dir' = save_dir]_vars

\* C18's case: the first match was fetched, saved and recorded; the fetch
\* of the second failed, and its entry is not in the ledger.
C18_Witness ==
    /\ cause = "download_error"
    /\ Len(fetched) = 2
    /\ Recorded(fetched[1], search_history)
    /\ ~Recorded(fetched[2], search_history)

\* the aggregator's answer is one a search does not succeed on: both
\* attempts fail, or the body that comes is not JSON
SearchFails(outcome) ==
    \/ outcome.attempts = <<"fail", "fail">>
    \/ /\ outcome.attempts # <<>>
       /\ outcome.attempts[Len(outcome.attempts)] = "ok"
       /\ outcome.body.http_ok
       /\ ~outcome.body.json_ok

\* C19: a search that ends without a response, or with a body that is not
\* JSON, returns no results and leaves the ledger as it was; and in a later
\* run with --parse-dir that consults the history, a release whose search
\* failed before is not skipped: the aggregator is asked for it again.
C19_FailedSearchNotRecorded ==
    [][/\ (/\ pc = "response"
           /\ \/ resp.status = "none"
              \/ resp.body.http_ok /\ ~resp.body.json_ok) =>
              /\ pc' = "download"
              /\ matching_results' = <<>>
              /\ search_history' = search_history
       /\ (/\ pc = "search"
           /\ run > 1
           /\ ARGS.parse_dir
           /\ ~ARGS.ignore_history
           /\ SearchFails(net[local_release_data.basename])) =>
              pc' = "request"]_vars

\* C19's case: a run with --parse-dir wrote its ledger after a release's
\* search failed; the next run loaded that ledger, the release's basename is
\* not in it, and the release is being searched again.
C19_Witness ==
    /\ run = 2
    /\ ARGS.parse_dir
    /\ ~ARGS.ignore_history
    /\ file0.exists
    /\ pc = "request"
    /\ reqs = 0
    /\ SearchFails(net[local_release_data.basename])
    /\ ~Contains(loaded.basenames_searched, local_release_data.basename)

\* C20: within a run `asked` holds exactly when the aggregator has been
\* asked and no delay has been slept since, and no request is issued while
\* it holds: between any two requests, the retry of a failed one or the
\* request of a later release, a delay is slept.
C20_DelayBetweenRequests ==
    [][run' = run =>
           /\ reqs' > reqs => ~asked
           /\ asked' = IF sleeps' > sleeps THEN FALSE
                       ELSE IF reqs' > reqs THEN TRUE
                       ELSE asked]_vars

\* C20's case: the first path's release was asked for, the second path had
\* no title and was skipped without a sleep, and the third path's release
\* is now asked for, one sleep after the first request.
C20_Witness ==
    /\ run = 1
    /\ Len(paths) = 3
    /\ i = 3
    /\ pc = "response"
    /\ net[get_release_data(paths[1]).basename] # Unknown
    /\ get_release_data(paths[2]).title = None
    /\ sleeps = 1
    /\ reqs = 1
    /\ asked

=============================================================================
